---- MODULE Spec2Model ----
(***************************************************************************)
(* A model of database/init_db.py: the SQLite bootstrap / migration        *)
(* script.  Text (file contents, paths) is a sequence of symbols: single   *)
(* characters, and one symbol for each fixed literal of the source         *)
(* ("File path:", "Connection string:", ...).                              *)
(***************************************************************************)
EXTENDS Integers, Sequences, FiniteSets, TLC

VARIABLES
    cwd,         \* the process's working directory (a path)
    descriptor,  \* db_connection.txt: [st, text]
    resolved,    \* the last result of _resolve_db_path, <<>> before any call
    dbs,         \* the database files: path -> committed database
    pc,          \* main()'s position
    db_path,     \* main()'s local db_path
    conn,        \* main()'s connection: [st, inTx, rows, seq]
    loc,         \* main()'s other locals and what the run has done so far
    fs,          \* db_visualizer and sqlite.env: [vizDir, envFile]
    runs,        \* how many times main() has been started
    prev,        \* what the previous run left (for comparing two runs)
    now,         \* the clock, in whole seconds (CURRENT_TIMESTAMP)
    last         \* the last statement a client connection ran on notes

vars == <<cwd, descriptor, resolved, dbs, pc, db_path, conn, loc, fs, runs, prev, now, last>>

(***************************************************************************)
(* Symbols                                                                 *)
(***************************************************************************)
HASH == "#"
SP == " "
NL == "\\n"
SLASH == "/"
DOT == "."
FILE_PATH == "File path:"
CONN_STR == "Connection string:"
SQLITE3 == "sqlite:///"
HEADER == "SQLite connection methods:"
PY_OPEN == "Python: sqlite3.connect('"
PY_CLOSE == "')"
DB_NAME == <<"myapp.db">>

Min(S) == CHOOSE x \in S : \A y \in S : x <= y
Max(S) == CHOOSE x \in S : \A y \in S : x >= y

\* \s of the regular expressions
IsSpace(c) == c \in {SP, NL}

\* the first position >= i that holds no whitespace (Len(s)+1 when none)
SkipSpace(s, i) == Min({j \in i..(Len(s) + 1) : j = Len(s) + 1 \/ ~IsSpace(s[j])})

\* the first position >= i that holds a line break (Len(s)+1 when none): where $ matches
LineEnd(s, i) == Min({j \in i..(Len(s) + 1) : j = Len(s) + 1 \/ s[j] = NL})

\* ^ under re.MULTILINE
LineStart(s, i) == i = 1 \/ s[i - 1] = NL

\* str.strip()
Strip(s) ==
    LET keep == {j \in 1..Len(s) : ~IsSpace(s[j])}
    IN  IF keep = {} THEN <<>> ELSE SubSeq(s, Min(keep), Max(keep))

NoMatch == [found |-> FALSE, group |-> <<>>]

(***************************************************************************)
(* re.search(r"^#\s*File path:\s*(.+)$", content, re.MULTILINE)            *)
(* matched at position i.  "\s*" is greedy and also takes line breaks;     *)
(* "(.+)" takes the rest of a line and needs one character.  When the      *)
(* whitespace after "File path:" runs to the end of the content, "\s*"     *)
(* gives characters back until "(.+)" can start at a blank.                *)
(***************************************************************************)
FilePathMatchAt(s, i) ==
    IF ~(i <= Len(s) /\ LineStart(s, i) /\ s[i] = HASH) THEN NoMatch
    ELSE LET q == SkipSpace(s, i + 1)
         IN  IF ~(q <= Len(s) /\ s[q] = FILE_PATH) THEN NoMatch
             ELSE LET p == SkipSpace(s, q + 1)
                      blanks == {r \in (q + 1)..Len(s) : s[r] = SP}
                  IN  IF p <= Len(s)
                      THEN [found |-> TRUE, group |-> SubSeq(s, p, LineEnd(s, p) - 1)]
                      ELSE IF blanks = {} THEN NoMatch
                      ELSE [found |-> TRUE,
                            group |-> SubSeq(s, Max(blanks), LineEnd(s, Max(blanks)) - 1)]

(***************************************************************************)
(* re.search(r"^#\s*Connection string:\s*sqlite:////(.+)$", ...) at i      *)
(***************************************************************************)
ConnStrMatchAt(s, i) ==
    IF ~(i <= Len(s) /\ LineStart(s, i) /\ s[i] = HASH) THEN NoMatch
    ELSE LET q == SkipSpace(s, i + 1)
         IN  IF ~(q <= Len(s) /\ s[q] = CONN_STR) THEN NoMatch
             ELSE LET p == SkipSpace(s, q + 1)
                  IN  IF p + 2 <= Len(s) /\ s[p] = SQLITE3 /\ s[p + 1] = SLASH
                         /\ s[p + 2] # NL
                      THEN [found |-> TRUE,
                            group |-> SubSeq(s, p + 2, LineEnd(s, p + 2) - 1)]
                      ELSE NoMatch

\* re.search: the leftmost match
SearchFilePath(s) ==
    LET hits == {i \in 1..Len(s) : FilePathMatchAt(s, i).found}
    IN  IF hits = {} THEN NoMatch ELSE FilePathMatchAt(s, Min(hits))

SearchConnStr(s) ==
    LET hits == {i \in 1..Len(s) : ConnStrMatchAt(s, i).found}
    IN  IF hits = {} THEN NoMatch ELSE ConnStrMatchAt(s, Min(hits))

(***************************************************************************)
(* _parse_db_path_from_connection_file; None is <<>> (the caller tests the *)
(* result for truth, and no path returned is empty).                       *)
(***************************************************************************)
ParseDbPath(file) ==
    IF file.st # "ok" THEN <<>>
    ELSE LET m1 == SearchFilePath(file.text)
             m2 == SearchConnStr(file.text)
         IN  IF m1.found /\ Strip(m1.group) # <<>> THEN Strip(m1.group)
             ELSE IF m2.found THEN <<SLASH>> \o Strip(m2.group)
             ELSE <<>>

(***************************************************************************)
(* os.path.abspath on POSIX: join with the working directory, normpath.    *)
(***************************************************************************)
RECURSIVE SplitSlash(_)
SplitSlash(s) ==
    LET e == LineEnd([j \in 1..Len(s) |-> IF s[j] = SLASH THEN NL ELSE "c"], 1)
    IN  IF e > Len(s) THEN <<s>>
        ELSE <<SubSeq(s, 1, e - 1)>> \o SplitSlash(SubSeq(s, e + 1, Len(s)))

RECURSIVE NormComps(_, _, _)
NormComps(comps, acc, rooted) ==
    IF comps = <<>> THEN acc
    ELSE LET c == Head(comps)
             rest == Tail(comps)
         IN  IF c = <<>> \/ c = <<DOT>> THEN NormComps(rest, acc, rooted)
             ELSE IF c # <<DOT, DOT>>
                     \/ (~rooted /\ acc = <<>>)
                     \/ (acc # <<>> /\ acc[Len(acc)] = <<DOT, DOT>>)
                  THEN NormComps(rest, Append(acc, c), rooted)
             ELSE IF acc # <<>> THEN NormComps(rest, SubSeq(acc, 1, Len(acc) - 1), rooted)
             ELSE NormComps(rest, acc, rooted)

RECURSIVE JoinSlash(_)
JoinSlash(comps) ==
    IF comps = <<>> THEN <<>>
    ELSE IF Len(comps) = 1 THEN comps[1]
    ELSE comps[1] \o <<SLASH>> \o JoinSlash(Tail(comps))

IsAbs(p) == p # <<>> /\ p[1] = SLASH

NormPath(p) ==
    IF p = <<>> THEN <<DOT>>
    ELSE LET slashes == IF ~IsAbs(p) THEN <<>>
                        ELSE IF Len(p) >= 2 /\ p[2] = SLASH /\ ~(Len(p) >= 3 /\ p[3] = SLASH)
                             THEN <<SLASH, SLASH>>
                        ELSE <<SLASH>>
             out == slashes \o JoinSlash(NormComps(SplitSlash(p), <<>>, IsAbs(p)))
         IN  IF out = <<>> THEN <<DOT>> ELSE out

PathJoin(a, b) ==
    IF IsAbs(b) THEN b
    ELSE IF a = <<>> \/ a[Len(a)] = SLASH THEN a \o b
    ELSE a \o <<SLASH>> \o b

AbsPath(dir, p) == NormPath(IF IsAbs(p) THEN p ELSE PathJoin(dir, p))

\* os.path.basename
Basename(p) ==
    LET sl == {j \in 1..Len(p) : p[j] = SLASH}
    IN  IF sl = {} THEN p ELSE SubSeq(p, Max(sl) + 1, Len(p))

\* os.path.dirname
Dirname(p) ==
    LET sl == {j \in 1..Len(p) : p[j] = SLASH}
        head == IF sl = {} THEN <<>> ELSE SubSeq(p, 1, Max(sl))
        keep == {j \in 1..Len(head) : head[j] # SLASH}
    IN  IF keep = {} THEN head ELSE SubSeq(head, 1, Max(keep))

\* _resolve_db_path
ResolveDbPath(dir, file) ==
    LET from_connection == ParseDbPath(file)
    IN  IF from_connection # <<>> THEN AbsPath(dir, from_connection)
        ELSE AbsPath(dir, DB_NAME)

\* the four lines main() writes to db_connection.txt
FormatDescriptor(p) ==
    <<HASH, SP, HEADER, NL>>
    \o <<HASH, SP, PY_OPEN>> \o Basename(p) \o <<PY_CLOSE, NL>>
    \o <<HASH, SP, CONN_STR, SP, SQLITE3>> \o p \o <<NL>>
    \o <<HASH, SP, FILE_PATH, SP>> \o p \o <<NL>>


(***************************************************************************)
(* The database.  A database is                                            *)
(*   [tables, notesCols, trigger, app_info, seq, notes]:                   *)
(* the tables that exist, the columns of notes, whether the trigger        *)
(* notes_set_updated_at exists, the rows of app_info with its              *)
(* AUTOINCREMENT counter (sqlite_sequence), and the rows of notes, each a  *)
(* function from the columns of notes to values.  Values are integers:     *)
(* NULL, a text (EMPTY_TEXT is ''), or a time in seconds.                  *)
(***************************************************************************)
NULL == -1
EMPTY_TEXT == 0

EmptyDb ==
    [tables |-> {}, notesCols |-> {}, trigger |-> FALSE,
     app_info |-> {}, seq |-> 0, notes |-> {}]

\* the columns CREATE TABLE IF NOT EXISTS notes (...) declares
NotesCreateCols == {"id", "title", "content", "created_at", "updated_at"}

\* required_columns of the three calls: (name, definition); the definition's
\* default is a constant or CURRENT_TIMESTAMP
RequiredColumns(t) ==
    IF t = "notes"
    THEN << [name |-> "title", current_timestamp |-> FALSE, dflt |-> EMPTY_TEXT],
            [name |-> "content", current_timestamp |-> FALSE, dflt |-> EMPTY_TEXT],
            [name |-> "created_at", current_timestamp |-> TRUE, dflt |-> NULL],
            [name |-> "updated_at", current_timestamp |-> TRUE, dflt |-> NULL] >>
    ELSE <<>>

\* the tables main() ensures, in order
EnsuredTables == <<"app_info", "users", "notes">>

\* the rows main() seeds, in order
SeedRows ==
    << <<"project_name", "database">>, <<"version", "0.1.0">>,
       <<"author", "John Doe">>, <<"description", "">> >>

\* CREATE TABLE IF NOT EXISTS <t> (...)
\* CREATE TABLE without IF NOT EXISTS after DROP TABLE IF EXISTS: the table is
\* made anew, without the rows and columns it had
DropAndCreateTable(db, t) ==
    [db EXCEPT !.tables = @ \cup {t},
               !.notesCols = IF t = "notes" THEN NotesCreateCols ELSE @,
               !.notes = IF t = "notes" THEN {} ELSE @]

CreateTableIfNotExists(db, t) ==
    IF t \in db.tables THEN db
    ELSE [db EXCEPT !.tables = @ \cup {t},
                    !.notesCols = IF t = "notes" THEN NotesCreateCols ELSE @]

\* _get_table_columns: the names PRAGMA table_info returns (notes is the only
\* table whose columns the script can change)
GetTableColumns(db, t) == IF t = "notes" THEN db.notesCols ELSE {}

\* SQLite refuses ALTER TABLE ADD COLUMN with a non-constant default on a table
\* that has rows ("Cannot add a column with non-constant default")
AddColumnRaises(db, col) == col.current_timestamp /\ db.notes # {}

\* ALTER TABLE notes ADD COLUMN <col>: every row gets the default
AddColumn(db, col) ==
    [db EXCEPT !.notesCols = @ \cup {col.name},
               !.notes = {[c \in DOMAIN r \cup {col.name} |->
                              IF c = col.name THEN col.dflt ELSE r[c]] : r \in @}]

\* CREATE TRIGGER IF NOT EXISTS notes_set_updated_at
CreateTriggerIfNotExists(db) == [db EXCEPT !.trigger = TRUE]

\* a plain INSERT into a table without the UNIQUE constraint on key: the row that
\* holds the key stays
InsertKeepingOld(t, key, value, time) ==
    [rows |-> t.rows
                \cup {[id |-> t.seq + 1, key |-> key, value |-> value, created_at |-> time]},
     seq |-> t.seq + 1]

\* INSERT OR REPLACE INTO app_info (key, value) VALUES (?, ?): key is UNIQUE, so
\* the row that holds the key is deleted; id is AUTOINCREMENT, created_at defaults
\* to CURRENT_TIMESTAMP
InsertOrReplace(t, key, value, time) ==
    [rows |-> {r \in t.rows : r.key # key}
                \cup {[id |-> t.seq + 1, key |-> key, value |-> value, created_at |-> time]},
     seq |-> t.seq + 1]

\* what a database file holds; a missing file reads as an empty database
Content(files, p) == IF p \in DOMAIN files THEN files[p] ELSE EmptyDb

WriteDb(files, p, db) == [q \in DOMAIN files \cup {p} |-> IF q = p THEN db ELSE files[q]]

\* the directories that exist: the working directory and its ancestors
RECURSIVE Ancestors(_)
Ancestors(p) ==
    IF Dirname(p) = p THEN {p} ELSE {p} \cup Ancestors(Dirname(p))

\* sqlite3.connect cannot open a directory ("unable to open database file")
ConnectRaises(dir, p) == p \in Ancestors(dir)

Schema(db) == [tables |-> db.tables, notesCols |-> db.notesCols, trigger |-> db.trigger]
Pairs(db) == {<<r.key, r.value>> : r \in db.app_info}


(***************************************************************************)
(* Bounds                                                                  *)
(***************************************************************************)
MaxRuns == 2       \* runs of main() in one behaviour
MaxTime == 1       \* the clock stops here
MaxPreRows == 1    \* rows of a notes table that exists before the first run

(***************************************************************************)
(* main(), statement by statement.  pc is the statement about to run.  A   *)
(* statement that can fail has a branch for the exception; loc.injected    *)
(* records that the failure came from the environment (disk, locks,        *)
(* permissions) and not from the statement's own precondition.             *)
(***************************************************************************)
NoConn == [st |-> "none", inTx |-> FALSE, rows |-> {}, seq |-> 0]

FreshLoc(db) ==
    [ti |-> 1, existing_cols |-> {}, ci |-> 1, si |-> 1,
     opened |-> 0, dbRaised |-> FALSE, dbOk |-> FALSE, committed |-> FALSE,
     injected |-> FALSE, warned |-> FALSE, vizFailed |-> FALSE, wroteDesc |-> FALSE,
     startDb |-> db, table_count |-> 0, record_count |-> 0]

NoPrev == [ok |-> FALSE, path |-> <<>>, schema |-> Schema(EmptyDb), pairs |-> {}]

RunEnded == pc \in {"done", "raised"}

\* except Exception as e: print(...); raise -- control reaches the finally clause
Raised(byEnvironment) ==
    /\ pc' = "finally"
    /\ loc' = [loc EXCEPT !.dbRaised = TRUE, !.injected = @ \/ byEnvironment]

\* a finally clause that closes nothing
LeaveOpen(c) == c

\* finally: if "conn" in locals(): conn.close() -- closing drops what was not committed
CloseIfOpen(c) == IF c.st = "open" THEN [NoConn EXCEPT !.st = "closed"] ELSE c

\* db_path = _resolve_db_path(); os.makedirs(db_dir, exist_ok=True)
Start ==
    /\ pc \in {"idle", "done", "raised"}
    /\ runs < MaxRuns
    /\ runs' = runs + 1
    /\ \E t \in {now, now + 1} : t <= MaxTime /\ now' = t
    /\ db_path' = ResolveDbPath(cwd, descriptor)
    /\ resolved' = db_path'
    /\ prev' = IF pc = "done"
               THEN [ok |-> TRUE, path |-> db_path, schema |-> Schema(Content(dbs, db_path)),
                     pairs |-> Pairs(Content(dbs, db_path))]
               ELSE NoPrev
    /\ conn' = NoConn
    /\ \/ /\ pc' = "connect"
          /\ loc' = FreshLoc(Content(dbs, db_path'))
       \/ /\ pc' = "raised"
          /\ loc' = [FreshLoc(Content(dbs, db_path')) EXCEPT !.injected = TRUE]
    /\ UNCHANGED <<cwd, descriptor, dbs, fs, last>>

\* conn = sqlite3.connect(db_path); cursor = conn.cursor()
Connect ==
    /\ pc = "connect"
    /\ \/ /\ ~ConnectRaises(cwd, db_path)
          /\ conn' = [NoConn EXCEPT !.st = "open"]
          /\ dbs' = WriteDb(dbs, db_path, Content(dbs, db_path))
          /\ loc' = [loc EXCEPT !.opened = @ + 1]
          /\ pc' = "pragma"
       \/ /\ Raised(~ConnectRaises(cwd, db_path))
          /\ UNCHANGED <<conn, dbs>>
    /\ UNCHANGED <<cwd, descriptor, resolved, db_path, fs, runs, prev, now, last>>

\* cursor.execute("PRAGMA foreign_keys = ON")
Pragma ==
    /\ pc = "pragma"
    /\ \/ /\ pc' = "create"
          /\ UNCHANGED loc
       \/ Raised(TRUE)
    /\ UNCHANGED <<cwd, descriptor, resolved, dbs, db_path, conn, fs, runs, prev, now, last>>

\* _ensure_table_with_required_columns: cursor.execute(create_sql);
\* existing_cols = _get_table_columns(cursor, table_name).  No transaction is
\* open (the sqlite3 module opens one before INSERT/UPDATE/DELETE/REPLACE only),
\* so the statement is committed as it runs.
EnsureTable ==
    /\ pc = "create"
    /\ \/ LET t == EnsuredTables[loc.ti]
              db == CreateTableIfNotExists(dbs[db_path], t)
          IN  /\ dbs' = WriteDb(dbs, db_path, db)
              /\ loc' = [loc EXCEPT !.existing_cols = GetTableColumns(db, t), !.ci = 1]
              /\ pc' = "alter"
       \/ /\ Raised(TRUE)
          /\ UNCHANGED dbs
    /\ UNCHANGED <<cwd, descriptor, resolved, db_path, conn, fs, runs, prev, now, last>>

\* for col_name, col_def in required_columns: if col_name in existing_cols:
\* continue; cursor.execute(ALTER TABLE ... ADD COLUMN ...)
AlterColumns ==
    /\ pc = "alter"
    /\ LET req == RequiredColumns(EnsuredTables[loc.ti])
       IN  \/ /\ loc.ci > Len(req)
              /\ IF loc.ti < Len(EnsuredTables)
                 THEN pc' = "create" /\ loc' = [loc EXCEPT !.ti = @ + 1]
                 ELSE pc' = "trigger" /\ UNCHANGED loc
              /\ UNCHANGED dbs
           \/ /\ loc.ci <= Len(req)
              /\ req[loc.ci].name \in loc.existing_cols
              /\ loc' = [loc EXCEPT !.ci = @ + 1]
              /\ UNCHANGED <<pc, dbs>>
           \/ /\ loc.ci <= Len(req)
              /\ req[loc.ci].name \notin loc.existing_cols
              /\ ~AddColumnRaises(dbs[db_path], req[loc.ci])
              /\ dbs' = WriteDb(dbs, db_path, AddColumn(dbs[db_path], req[loc.ci]))
              /\ loc' = [loc EXCEPT !.ci = @ + 1]
              /\ UNCHANGED pc
           \/ /\ loc.ci <= Len(req)
              /\ req[loc.ci].name \notin loc.existing_cols
              /\ Raised(~AddColumnRaises(dbs[db_path], req[loc.ci]))
              /\ UNCHANGED dbs
    /\ UNCHANGED <<cwd, descriptor, resolved, db_path, conn, fs, runs, prev, now, last>>

\* _ensure_notes_updated_at_trigger(cursor)
EnsureTrigger ==
    /\ pc = "trigger"
    /\ \/ /\ dbs' = WriteDb(dbs, db_path, CreateTriggerIfNotExists(dbs[db_path]))
          /\ pc' = "seed"
          /\ UNCHANGED loc
       \/ /\ Raised(TRUE)
          /\ UNCHANGED dbs
    /\ UNCHANGED <<cwd, descriptor, resolved, db_path, conn, fs, runs, prev, now, last>>

\* the connection's view of app_info: its open transaction, or what is committed
View(c, db) == IF c.inTx THEN [rows |-> c.rows, seq |-> c.seq]
               ELSE [rows |-> db.app_info, seq |-> db.seq]

\* cursor.execute("INSERT OR REPLACE INTO app_info ..."), four times; the first
\* opens the transaction
Seed ==
    /\ pc = "seed"
    /\ \/ LET t == InsertOrReplace(View(conn, dbs[db_path]),
                                   SeedRows[loc.si][1], SeedRows[loc.si][2], now)
          IN  /\ conn' = [conn EXCEPT !.inTx = TRUE, !.rows = t.rows, !.seq = t.seq]
              /\ loc' = [loc EXCEPT !.si = @ + 1]
              /\ pc' = IF loc.si = Len(SeedRows) THEN "commit" ELSE "seed"
       \/ /\ Raised(TRUE)
          /\ UNCHANGED conn
    /\ UNCHANGED <<cwd, descriptor, resolved, dbs, db_path, fs, runs, prev, now, last>>

\* conn.commit()
Commit ==
    /\ pc = "commit"
    /\ \/ /\ dbs' = WriteDb(dbs, db_path,
                            [dbs[db_path] EXCEPT !.app_info = View(conn, @).rows,
                                                 !.seq = View(conn, @).seq])
          /\ conn' = [conn EXCEPT !.inTx = FALSE, !.rows = {}, !.seq = 0]
          /\ loc' = [loc EXCEPT !.committed = TRUE]
          /\ pc' = "stats"
       \/ /\ Raised(TRUE)
          /\ UNCHANGED <<dbs, conn>>
    /\ UNCHANGED <<cwd, descriptor, resolved, db_path, fs, runs, prev, now, last>>

\* the two SELECT COUNT(*) statements
Stats ==
    /\ pc = "stats"
    /\ \/ /\ loc' = [loc EXCEPT !.table_count = Cardinality(dbs[db_path].tables),
                                !.record_count = Cardinality(dbs[db_path].app_info),
                                !.dbOk = TRUE]
          /\ pc' = "finally"
       \/ Raised(TRUE)
    /\ UNCHANGED <<cwd, descriptor, resolved, dbs, db_path, conn, fs, runs, prev, now, last>>

\* finally: close; then the exception, if any, leaves main()
Finally ==
    /\ pc = "finally"
    /\ conn' = CloseIfOpen(conn)
    /\ pc' = IF loc.dbRaised THEN "raised" ELSE "write_descriptor"
    /\ UNCHANGED <<cwd, descriptor, resolved, dbs, db_path, loc, fs, runs, prev, now, last>>

\* with open("db_connection.txt", "w") ...; a failure is printed as a warning
WriteDescriptor ==
    /\ pc = "write_descriptor"
    /\ \/ /\ descriptor' = [st |-> "ok", text |-> FormatDescriptor(db_path)]
          /\ loc' = [loc EXCEPT !.wroteDesc = TRUE]
       \/ /\ loc' = [loc EXCEPT !.warned = TRUE]
          /\ UNCHANGED descriptor
    /\ pc' = "viz_dir"
    /\ UNCHANGED <<cwd, resolved, dbs, db_path, conn, fs, runs, prev, now, last>>

\* if not os.path.exists("db_visualizer"): os.makedirs(...) -- outside any try
EnsureVizDir ==
    /\ pc = "viz_dir"
    /\ \/ /\ fs.vizDir
          /\ pc' = "write_env"
          /\ UNCHANGED <<fs, loc>>
       \/ /\ ~fs.vizDir
          /\ fs' = [fs EXCEPT !.vizDir = TRUE]
          /\ pc' = "write_env"
          /\ UNCHANGED loc
       \/ /\ ~fs.vizDir
          /\ pc' = "raised"
          /\ loc' = [loc EXCEPT !.vizFailed = TRUE, !.injected = TRUE]
          /\ UNCHANGED fs
    /\ UNCHANGED <<cwd, descriptor, resolved, dbs, db_path, conn, runs, prev, now, last>>

\* with open("db_visualizer/sqlite.env", "w") ...; a failure is a warning
WriteEnv ==
    /\ pc = "write_env"
    /\ \/ /\ fs' = [fs EXCEPT !.envFile = db_path]
          /\ UNCHANGED loc
       \/ /\ loc' = [loc EXCEPT !.warned = TRUE]
          /\ UNCHANGED fs
    /\ pc' = "report"
    /\ UNCHANGED <<cwd, descriptor, resolved, dbs, db_path, conn, runs, prev, now, last>>

\* the report, to "Script completed successfully."
Report ==
    /\ pc = "report"
    /\ pc' = "done"
    /\ UNCHANGED <<cwd, descriptor, resolved, dbs, db_path, conn, loc, fs, runs, prev, now, last>>

(***************************************************************************)
(* Where a behaviour starts: a working directory, possibly a descriptor    *)
(* file, possibly a database file at the path the descriptor resolves to.  *)
(***************************************************************************)
NormalCwd == <<SLASH, "w">>
NewlineCwd == <<SLASH, "w", SLASH, NL>>
CwdSet == {NormalCwd, NewlineCwd}

NoFile == [st |-> "absent", text |-> <<>>]
InitDescriptors ==
    {NoFile, [st |-> "unreadable", text |-> <<>>],
     [st |-> "ok", text |-> FormatDescriptor(<<SLASH, "d", SLASH, "x">>)]}

RequiredNames == {"title", "content", "created_at", "updated_at"}

PreRow(cols, i) ==
    [c \in cols |-> IF c = "id" THEN i
                    ELSE IF c \in {"created_at", "updated_at"} THEN 0 ELSE 6 + i]

OldAppRows ==
    {[id |-> 1, key |-> "description", value |-> "old", created_at |-> 0],
     [id |-> 2, key |-> "custom", value |-> "x", created_at |-> 0]}

\* databases that exist before the first run: any of the script's tables, a
\* notes table with any of the required columns and a column of its own
InitDbs ==
    {[tables |-> (IF n.present THEN {"notes"} ELSE {})
                   \cup (IF a.present THEN {"app_info", "users"} ELSE {}),
      notesCols |-> IF n.present THEN {"id", "body"} \cup n.cols ELSE {},
      trigger |-> FALSE,
      app_info |-> IF a.old THEN OldAppRows ELSE {},
      seq |-> IF a.old THEN 2 ELSE 0,
      notes |-> IF n.present
                THEN {PreRow({"id", "body"} \cup n.cols, i) : i \in 1..n.k}
                ELSE {}] :
        n \in [present : {TRUE}, cols : SUBSET RequiredNames, k : 0..MaxPreRows]
              \cup [present : {FALSE}, cols : {{}}, k : {0}],
        a \in {[present |-> FALSE, old |-> FALSE], [present |-> TRUE, old |-> FALSE],
               [present |-> TRUE, old |-> TRUE]}}

NoFiles == [p \in {} |-> EmptyDb]

InitCommon ==
    /\ resolved = <<>>
    /\ pc = "idle"
    /\ db_path = <<>>
    /\ conn = NoConn
    /\ loc = FreshLoc(EmptyDb)
    /\ fs = [vizDir |-> FALSE, envFile |-> <<>>]
    /\ runs = 0
    /\ prev = NoPrev
    /\ now = 0
    /\ last = [op |-> "none"]

Init ==
    /\ InitCommon
    /\ cwd \in CwdSet
    /\ descriptor \in InitDescriptors
    /\ \/ dbs = NoFiles
       \/ /\ cwd = NormalCwd
          /\ \E d \in InitDbs : dbs = WriteDb(NoFiles, ResolveDbPath(cwd, descriptor), d)

Next ==
    \/ Start \/ Connect \/ Pragma \/ EnsureTable \/ AlterColumns \/ EnsureTrigger
    \/ Seed \/ Commit \/ Stats \/ Finally
    \/ WriteDescriptor \/ EnsureVizDir \/ WriteEnv \/ Report

Spec == Init /\ [][Next]_vars


(***************************************************************************)
(* Claims about main()                                                     *)
(***************************************************************************)

\* C1 (as claimed): a run that follows a successful run, with no failure of the
\* environment, does not raise and ends with the schema and the (key, value)
\* pairs of app_info that the first run left.
C1_Idempotent ==
    (prev.ok /\ ~loc.injected) =>
        /\ pc # "raised"
        /\ pc = "done" => /\ Schema(Content(dbs, db_path)) = prev.schema
                          /\ Pairs(Content(dbs, db_path)) = prev.pairs

\* Two runs that open the same database file do leave the same schema and pairs
\* (what C1 says, less the path: see C4).
IdempotentOnSameDatabase ==
    (prev.ok /\ ~loc.injected /\ prev.path = db_path) =>
        /\ pc # "raised"
        /\ pc = "done" => /\ Schema(Content(dbs, db_path)) = prev.schema
                          /\ Pairs(Content(dbs, db_path)) = prev.pairs

\* C2 (as claimed): when a statement before conn.commit() raised, the run is over
\* with the connection closed and the database as it was when the run started.
C2_AtomicCommit ==
    (pc = "raised" /\ loc.dbRaised /\ ~loc.committed) =>
        /\ conn.st # "open"
        /\ Content(dbs, db_path) = loc.startDb

\* C4 (as claimed): once main() has written db_connection.txt for db_path, the
\* path resolver returns db_path.
C4_RoundTrip ==
    (loc.wroteDesc /\ pc \in {"viz_dir", "write_env", "report", "done", "raised"}) =>
        ResolveDbPath(cwd, descriptor) = db_path

UniqueKeys(rows) == \A r1, r2 \in rows : r1.key = r2.key => r1 = r2

\* the first n seed rows are there, one row each, with the seed's value
SeededUpTo(rows, n) ==
    \A i \in 1..n :
        /\ Cardinality({r \in rows : r.key = SeedRows[i][1]}) = 1
        /\ \A r \in rows : r.key = SeedRows[i][1] => r.value = SeedRows[i][2]

\* C5: app_info never holds two rows with one key, in no database file and in no
\* open transaction; after each seed statement the keys seeded so far have one row
\* each with the seeded value, and after the commit so has the database.
C5_SeedUpsert ==
    /\ \A p \in DOMAIN dbs : UniqueKeys(dbs[p].app_info)
    /\ UniqueKeys(conn.rows)
    /\ (pc = "seed" /\ conn.inTx) => SeededUpTo(conn.rows, loc.si - 1)
    /\ pc = "commit" => SeededUpTo(conn.rows, Len(SeedRows))
    /\ loc.committed => SeededUpTo(dbs[db_path].app_info, Len(SeedRows))

\* C5's case: a second run ended, on a database whose description row held
\* another value when the first run started... the row now holds the seed's value
C5_Witness ==
    /\ pc = "done"
    /\ \E r \in loc.startDb.app_info : r.key = "description" /\ r.value # ""
    /\ <<"description", "">> \in Pairs(dbs[db_path])

\* C6: a successful run keeps every table, every column of notes and every value
\* of every row of notes that was there when it started, and notes then has the
\* four required columns.
C6_AdditiveOnly ==
    pc = "done" =>
        LET d0 == loc.startDb
            d1 == dbs[db_path]
        IN  /\ d0.tables \subseteq d1.tables
            /\ d0.notesCols \subseteq d1.notesCols
            /\ RequiredNames \subseteq d1.notesCols
            /\ d0.trigger => d1.trigger
            /\ Cardinality(d1.notes) = Cardinality(d0.notes)
            /\ \A r \in d0.notes : \E r1 \in d1.notes : \A c \in d0.notesCols : r1[c] = r[c]

\* C6's case: notes existed with rows, a column of its own and no title column
C6_Witness ==
    /\ pc = "done"
    /\ loc.startDb.notes # {}
    /\ "body" \in loc.startDb.notesCols
    /\ "title" \notin loc.startDb.notesCols

\* C9 (as claimed): every run opens exactly one connection and has closed it when
\* it ends; the descriptor file is not written while the connection is open.
C9_ExactlyOneConnection ==
    /\ RunEnded => (loc.opened = 1 /\ conn.st = "closed")
    /\ pc = "write_descriptor" => conn.st # "open"

\* C9 (amended): a run opens at most one connection, none only when it ended by an
\* exception before or in sqlite3.connect; the connection is open only between
\* connect and the finally clause, and is closed when the run ends or writes files.
C9_ConnectionReleased ==
    /\ loc.opened <= 1
    /\ conn.st = "open" =>
           pc \in {"pragma", "create", "alter", "trigger", "seed", "commit", "stats", "finally"}
    /\ RunEnded => (conn.st # "open" /\ (loc.opened = 1 <=> conn.st = "closed"))
    /\ (RunEnded /\ loc.opened = 0) => (pc = "raised" /\ ~loc.dbOk /\ loc.startDb = Content(dbs, db_path))
    /\ pc \in {"write_descriptor", "viz_dir", "write_env", "report", "done"} =>
           (loc.opened = 1 /\ conn.st = "closed")

\* C9's case: a statement of the database phase raised with the connection open,
\* and the run ended
C9_Witness ==
    /\ pc = "raised"
    /\ loc.dbRaised
    /\ loc.opened = 1
    /\ conn.st = "closed"

\* C10 (as claimed): a run ends by an exception when the database phase raised, and
\* otherwise, whatever happens to the two files and the directory, ends normally.
C10_ExitStatus ==
    RunEnded =>
        /\ loc.dbRaised => pc = "raised"
        /\ loc.dbOk => pc = "done"


(***************************************************************************)
(* The path resolver alone: _resolve_db_path() called once, for every      *)
(* descriptor file of up to MaxLines lines drawn from DescriptorLines.     *)
(***************************************************************************)
MaxLines == 2

PathValues == {<<SLASH, "a">>, <<SLASH, "b">>, <<"r">>}

DescriptorLines ==
    {<<HASH, SP, FILE_PATH, SP>> \o v : v \in PathValues}
    \cup {<<HASH, SP, FILE_PATH, SP, SLASH, "a", SP>>,
          <<HASH, SP, FILE_PATH>>,
          <<HASH, SP, FILE_PATH, SP, SP>>,
          <<HASH, SP, CONN_STR, SP, SQLITE3, SLASH, "a">>,
          <<HASH, SP, CONN_STR, SP, SQLITE3, SLASH, "b">>,
          <<HASH, SP, HEADER>>,
          <<HASH>>,
          <<FILE_PATH, SP, SLASH, "a">>,
          <<>>}

RECURSIVE JoinLines(_)
JoinLines(ls) == IF ls = <<>> THEN <<>> ELSE Head(ls) \o <<NL>> \o JoinLines(Tail(ls))

DescriptorTexts ==
    {JoinLines(ls) : ls \in UNION {[1..n -> DescriptorLines] : n \in 0..MaxLines}}

InitPath ==
    /\ InitCommon
    /\ cwd \in CwdSet
    /\ descriptor \in {NoFile, [st |-> "unreadable", text |-> <<>>]}
                        \cup {[st |-> "ok", text |-> t] : t \in DescriptorTexts}
    /\ dbs \in {NoFiles, WriteDb(NoFiles, AbsPath(cwd, DB_NAME), EmptyDb)}

Resolve ==
    /\ pc = "idle"
    /\ resolved = <<>>
    /\ resolved' = ResolveDbPath(cwd, descriptor)
    /\ UNCHANGED <<cwd, descriptor, dbs, pc, db_path, conn, loc, fs, runs, prev, now, last>>

NextPath == Resolve

SpecPath == InitPath /\ [][NextPath]_vars

\* the lines of a text (each without its line break)
RECURSIVE TextLines(_)
TextLines(s) ==
    IF s = <<>> THEN <<>>
    ELSE LET e == LineEnd(s, 1)
         IN  <<SubSeq(s, 1, e - 1)>> \o TextLines(SubSeq(s, e + 1, Len(s)))

\* where a line's text starts after "#", blanks and the keyword kw; 0 when the
\* line is not "#", blanks, kw
AfterKeyword(l, kw) ==
    LET q == IF l = <<>> THEN 0 ELSE Min({j \in 2..(Len(l) + 1) : j = Len(l) + 1 \/ l[j] # SP})
    IN  IF l # <<>> /\ l[1] = HASH /\ q <= Len(l) /\ l[q] = kw THEN q + 1 ELSE 0

\* the <value> of a line "# File path: <value>"; <<>> when the line is none
FilePathValue(l) ==
    IF AfterKeyword(l, FILE_PATH) = 0 THEN <<>>
    ELSE Strip(SubSeq(l, AfterKeyword(l, FILE_PATH), Len(l)))

\* C3 (as claimed): with a line "# File path: <value>" in the file, the resolved
\* path is the absolute form of the first such line's value, whatever else the
\* file holds and whether or not the default database file exists; with the file
\* absent, unreadable or matched by neither of the two patterns, the resolved
\* path is the absolute form of the default name.
C3_PathPrecedence ==
    resolved # <<>> =>
        LET ls == TextLines(descriptor.text)
            valued == {i \in 1..Len(ls) : FilePathValue(ls[i]) # <<>>}
            matched == SearchFilePath(descriptor.text).found
                       \/ SearchConnStr(descriptor.text).found
        IN  /\ (descriptor.st = "ok" /\ valued # {}) =>
                   resolved = AbsPath(cwd, FilePathValue(ls[Min(valued)]))
            /\ (descriptor.st # "ok" \/ ~matched) =>
                   resolved = AbsPath(cwd, DB_NAME)


(***************************************************************************)
(* The trigger at work.  The script installs                               *)
(*   CREATE TRIGGER notes_set_updated_at AFTER UPDATE ON notes             *)
(*   FOR EACH ROW WHEN NEW.updated_at = OLD.updated_at                     *)
(*   BEGIN UPDATE notes SET updated_at = CURRENT_TIMESTAMP                 *)
(*         WHERE id = NEW.id; END                                          *)
(* and client connections then insert and update rows of notes.  A client  *)
(* connection has its own PRAGMA recursive_triggers (SQLite's default is   *)
(* OFF): with it ON the trigger's own UPDATE fires triggers too, to the    *)
(* depth SQLite allows, beyond which the statement fails and is undone.    *)
(***************************************************************************)
MaxNotes == 2          \* ids of notes rows
MaxTriggerDepth == 3   \* stands for SQLITE_MAX_TRIGGER_DEPTH

\* WHEN NEW.updated_at = OLD.updated_at: a comparison with NULL is not true
TriggerWhen(old, new) ==
    /\ old["updated_at"] # NULL
    /\ new["updated_at"] # NULL
    /\ new["updated_at"] = old["updated_at"]

\* a trigger body without its WHERE clause: UPDATE notes SET updated_at = ...
EveryRow(rows, new) == {r["id"] : r \in rows}

\* WHERE id = NEW.id: the rows the trigger's UPDATE changes
TriggerTargets(rows, new) == {r["id"] : r \in {x \in rows : x["id"] = new["id"]}}

\* SET <column> = <value>, ... on one row
Assign(row, set) == [c \in DOMAIN row |-> IF c \in DOMAIN set THEN set[c] ELSE row[c]]

(***************************************************************************)
(* UPDATE notes SET <set> WHERE id IN <ids>, at trigger depth `depth` (0:  *)
(* the client's statement), row by row in id order; after each row the     *)
(* trigger runs if it exists, its WHEN holds, and triggers fire at this    *)
(* depth.  The result: the rows, how often the trigger fired, and whether  *)
(* the statement failed ("too many levels of trigger recursion").          *)
(***************************************************************************)
RECURSIVE UpdateRows(_, _, _, _, _, _, _)
UpdateRows(rows, ids, set, depth, time, recursive, installed) ==
    IF ids = {} THEN [rows |-> rows, fires |-> 0, err |-> FALSE]
    ELSE LET i == Min(ids)
             old == CHOOSE r \in rows : r["id"] = i
             new == Assign(old, set)
             rows1 == (rows \ {old}) \cup {new}
             fire == installed /\ (depth = 0 \/ recursive) /\ TriggerWhen(old, new)
             body == IF ~fire THEN [rows |-> rows1, fires |-> 0, err |-> FALSE]
                     ELSE IF depth >= MaxTriggerDepth
                          THEN [rows |-> rows1, fires |-> 0, err |-> TRUE]
                     ELSE LET inner == UpdateRows(rows1, TriggerTargets(rows1, new),
                                                  [updated_at |-> time], depth + 1,
                                                  time, recursive, installed)
                          IN  [rows |-> inner.rows, fires |-> 1 + inner.fires,
                               err |-> inner.err]
         IN  IF body.err THEN body
             ELSE LET rest == UpdateRows(body.rows, ids \ {i}, set, depth, time,
                                         recursive, installed)
                  IN  [rows |-> rest.rows, fires |-> body.fires + rest.fires,
                       err |-> rest.err]

\* what the database phase of main() makes of an empty database
RECURSIVE SeedAll(_, _)
SeedAll(t, i) ==
    IF i > Len(SeedRows) THEN t
    ELSE SeedAll(InsertOrReplace(t, SeedRows[i][1], SeedRows[i][2], 0), i + 1)

InstalledDb ==
    LET d == CreateTriggerIfNotExists(
                 CreateTableIfNotExists(
                     CreateTableIfNotExists(
                         CreateTableIfNotExists(EmptyDb, "app_info"), "users"), "notes"))
        t == SeedAll([rows |-> d.app_info, seq |-> d.seq], 1)
    IN  [d EXCEPT !.app_info = t.rows, !.seq = t.seq]

ClientPath == AbsPath(NormalCwd, DB_NAME)

\* the state a first run in an empty working directory ends in
InitTrigger ==
    /\ cwd = NormalCwd
    /\ descriptor = [st |-> "ok", text |-> FormatDescriptor(ClientPath)]
    /\ resolved = ClientPath
    /\ dbs = WriteDb(NoFiles, ClientPath, InstalledDb)
    /\ pc = "done"
    /\ db_path = ClientPath
    /\ conn = [NoConn EXCEPT !.st = "closed"]
    /\ loc = [FreshLoc(EmptyDb) EXCEPT !.ti = Len(EnsuredTables),
                                      !.existing_cols = NotesCreateCols,
                                      !.ci = Len(RequiredColumns("notes")) + 1,
                                      !.si = Len(SeedRows) + 1,
                                      !.opened = 1, !.dbOk = TRUE, !.committed = TRUE,
                                      !.wroteDesc = TRUE, !.table_count = 3,
                                      !.record_count = Len(SeedRows)]
    /\ fs = [vizDir |-> TRUE, envFile |-> ClientPath]
    /\ runs = 1
    /\ prev = NoPrev
    /\ now = 0
    /\ last = [op |-> "none", ok |-> TRUE, fires |-> 0, kept |-> FALSE,
               oldUpdated |-> NULL, newUpdated |-> NULL, othersSame |-> TRUE, at |-> 0]

Tick ==
    /\ now < MaxTime
    /\ now' = now + 1
    /\ UNCHANGED <<cwd, descriptor, resolved, dbs, pc, db_path, conn, loc, fs, runs, prev, last>>

\* a client, in the second the script ran in: INSERT INTO notes (id, title,
\* content[, updated_at]) VALUES (...); created_at, and updated_at when not given,
\* default to CURRENT_TIMESTAMP
InsertNote ==
    /\ RunEnded
    /\ now = 0
    /\ db_path \in DOMAIN dbs
    /\ dbs[db_path].notesCols = NotesCreateCols
    /\ \E i \in 1..MaxNotes, u \in {NULL} \cup 0..MaxTime :
        /\ \A r \in dbs[db_path].notes : r["id"] # i
        /\ dbs' = WriteDb(dbs, db_path,
                          [dbs[db_path] EXCEPT !.notes = @ \cup
                              {[c \in NotesCreateCols |->
                                  CASE c = "id" -> i
                                    [] c = "created_at" -> now
                                    [] c = "updated_at" -> u
                                    [] OTHER -> 1]}])
        /\ last' = [op |-> "insert", ok |-> TRUE, fires |-> 0, kept |-> FALSE,
                    oldUpdated |-> NULL, newUpdated |-> u, othersSame |-> TRUE,
                    at |-> now]
    /\ UNCHANGED <<cwd, descriptor, resolved, pc, db_path, conn, loc, fs, runs, prev, now>>

\* what a client's UPDATE of row i leaves, and what is recorded of it
ClientUpdate(i, set, recursive) ==
    LET db == dbs[db_path]
        old == CHOOSE r \in db.notes : r["id"] = i
        res == UpdateRows(db.notes, {i}, set, 0, now, recursive, db.trigger)
        after == IF res.err THEN db.notes ELSE res.rows
    IN  /\ dbs' = WriteDb(dbs, db_path, [db EXCEPT !.notes = after])
        /\ last' = [op |-> "update", ok |-> ~res.err, fires |-> res.fires,
                    kept |-> Assign(old, set)["updated_at"] = old["updated_at"],
                    oldUpdated |-> old["updated_at"],
                    newUpdated |-> (CHOOSE r \in after : r["id"] = i)["updated_at"],
                    othersSame |-> \A r \in db.notes : r["id"] # i => r \in after,
                    at |-> now]

\* a client: UPDATE notes SET title = ? WHERE id = ?
UpdateTitle ==
    /\ RunEnded
    /\ db_path \in DOMAIN dbs
    /\ \E r \in dbs[db_path].notes, recursive \in BOOLEAN :
        ClientUpdate(r["id"], [title |-> 3 - r["title"]], recursive)
    /\ UNCHANGED <<cwd, descriptor, resolved, pc, db_path, conn, loc, fs, runs, prev, now>>

\* a client: UPDATE notes SET updated_at = updated_at WHERE id = ?
UpdateStamp ==
    /\ RunEnded
    /\ db_path \in DOMAIN dbs
    /\ \E r \in dbs[db_path].notes, recursive \in BOOLEAN :
        ClientUpdate(r["id"], [updated_at |-> r["updated_at"]], recursive)
    /\ UNCHANGED <<cwd, descriptor, resolved, pc, db_path, conn, loc, fs, runs, prev, now>>

NextTrigger == Tick \/ InsertNote \/ UpdateTitle \/ UpdateStamp

SpecTrigger == InitTrigger /\ [][NextTrigger]_vars

C8_FiresAtMostOnce ==
    last.op = "update" => (last.fires <= 1 /\ last.ok)

====
